---- MODULE Spec2Model ----
(***************************************************************************)
(* go-scrape: an HTTP server with one handler, POST /scrape, that fetches  *)
(* a page and answers with its text.  The repository holds two             *)
(* definitions of scraper.ExtractTextFromURL: the DOM traversal            *)
(* (src/main.go:62-75, with extractTextFromHTML and isIgnorable) and the   *)
(* readability one (src/scraper/text.go:13-43).  A build links one of      *)
(* them; impl records which.                                               *)
(*                                                                         *)
(* Strings whose characters matter (page text, extracted content) are      *)
(* sequences of one-character strings.                                     *)
(***************************************************************************)
EXTENDS Integers, Sequences, FiniteSets, TLC

VARIABLES
    impl,        \* which ExtractTextFromURL the build links: "dom" | "readability"
    pc,          \* pc[r]: where the goroutine serving request r stands
    req,         \* req[r]: the HTTP request as scrapeHandler reads it
    fetch,       \* fetch[r]: what the GET of ExtractTextFromURL returned
    result,      \* result[r]: the (content, err) ExtractTextFromURL returned
    resp,        \* resp[r]: the HTTP response scrapeHandler wrote
    log,         \* log[r]: the operations performed for r, in order
    openBodies,  \* number of response bodies obtained and not yet closed
    alive,       \* the server process is running
    doc,         \* input of the text-extraction specification: a parsed tree
    text         \* output of the text-extraction specification

vars == <<impl, pc, req, fetch, result, resp, log, openBodies, alive, doc, text>>

\* ---------------------------------------------------------------- bounds
NumReq == 2      \* goroutines serving requests concurrently
MaxKids == 2     \* children of <head> and of <body> in an input document

\* ------------------------------------------------------ program constants
StatusOK == 200
StatusBadRequest == 400
StatusMethodNotAllowed == 405
StatusInternalServerError == 500
MinContentLength == 100

\* ------------------------------------------------------------- strings
IsSpace(c) == c \in {" ", "\n", "\t"}

RECURSIVE TrimLeft(_)
TrimLeft(s) ==
    IF s = <<>> THEN s
    ELSE IF IsSpace(Head(s)) THEN TrimLeft(Tail(s)) ELSE s

RECURSIVE TrimRight(_)
TrimRight(s) ==
    IF s = <<>> THEN s
    ELSE IF IsSpace(s[Len(s)]) THEN TrimRight(SubSeq(s, 1, Len(s) - 1)) ELSE s

\* strings.TrimSpace
TrimSpace(s) == TrimRight(TrimLeft(s))

\* ------------------------------------------------------ html.Node trees
\* html.Node.Data holds the tag name of an element and the characters of a
\* text node; here the two uses are the fields tag and data.
NilNode == [type |-> "Nil", tag |-> "", data |-> <<>>, kids |-> <<>>]
TextNode(d) == [type |-> "Text", tag |-> "", data |-> d, kids |-> <<>>]
ElementNode(t, ks) == [type |-> "Element", tag |-> t, data |-> <<>>, kids |-> ks]
DocumentNode(ks) == [type |-> "Document", tag |-> "", data |-> <<>>, kids |-> ks]

\* main.go:103-113
isIgnorable(n) ==
    IF n.type = "Nil" \/ n.type # "Element" THEN FALSE
    ELSE n.tag \in {"script", "style", "head", "noscript"}

\* main.go:88 -- the text a node contributes before the separator
nodeTextRaw(d) == d
nodeText(d) == TrimSpace(d)

\* main.go:86-96 -- what traverse(n) appends to the builder
RECURSIVE traverse(_, _)
RECURSIVE traverseKids(_, _, _)
traverse(n, parent) ==
    LET own == IF n.type = "Text" /\ ~isIgnorable(parent)
               THEN LET t == nodeText(n.data)
                    IN  IF Len(t) > 0 THEN t \o <<" ">> ELSE <<>>
               ELSE <<>>
    IN  own \o traverseKids(n, 1, n.kids)
traverseKids(n, i, ks) ==
    IF i > Len(ks) THEN <<>>
    ELSE traverse(ks[i], n) \o traverseKids(n, i + 1, ks)

\* html.Parse (main.go:78-81): the tree of a body that could be read, an
\* error when reading the body failed
htmlParse(body) ==
    IF body.readOk THEN [doc |-> body.doc, err |-> ""]
    ELSE [doc |-> NilNode, err |-> "read error"]

\* main.go:77-101
extractTextFromHTML(body) ==
    LET p == htmlParse(body)
    IN  IF p.err # "" THEN [content |-> <<>>, err |-> p.err]
        ELSE [content |-> TrimSpace(traverse(p.doc, NilNode)), err |-> ""]

\* ------------------------------------------------- documents html.Parse
\* builds: Document > html > (head, body)
SeqsUpTo(S, n) == UNION {[1..k -> S] : k \in 0..n}

HeadKids ==
    { ElementNode("title", <<TextNode(<<"t">>)>>),
      ElementNode("style", <<TextNode(<<"s">>)>>),
      TextNode(<<"\n">>) }

BodyKids ==
    { TextNode(<<" ", "y", " ">>),
      TextNode(<<"z", " ", " ", "w">>),
      TextNode(<<"\n">>),
      ElementNode("p", <<TextNode(<<"x">>)>>),
      ElementNode("script", <<TextNode(<<"k">>)>>),
      ElementNode("noscript", <<TextNode(<<" ", "n">>)>>) }

MkDoc(h, b) ==
    DocumentNode(<<ElementNode("html",
        <<ElementNode("head", h), ElementNode("body", b)>>)>>)

Docs == {MkDoc(h, b) : h \in SeqsUpTo(HeadKids, MaxKids), b \in SeqsUpTo(BodyKids, MaxKids)}

NoText == [kind |-> "none", content |-> <<>>, err |-> ""]

\* ------------------------------------------------------------ the server
Reqs == 1..NumReq

\* a URL string, by the parts net/url reads from it
\* (wellFormed: url.Parse accepts the string)
URLs == { [scheme |-> "http", host |-> "example.com", wellFormed |-> TRUE],
          [scheme |-> "ftp", host |-> "example.com", wellFormed |-> TRUE],
          [scheme |-> "http", host |-> "[::1", wellFormed |-> FALSE] }
NoURL == [scheme |-> "", host |-> "", wellFormed |-> FALSE]

\* what scrapeHandler reads of a request (main.go:22, 29): the method,
\* whether the body decodes as JSON, the url field
Requests ==
    { [method |-> "GET", bodyOk |-> FALSE, url |-> NoURL],
      [method |-> "POST", bodyOk |-> FALSE, url |-> NoURL] }
    \cup { [method |-> "POST", bodyOk |-> TRUE, url |-> u] : u \in URLs }
NoRequest == [method |-> "", bodyOk |-> FALSE, url |-> NoURL]

Rep(c, n) == [i \in 1..n |-> c]

\* response bodies a remote server may send: the tree html.Parse builds of
\* it, the TextContent readability finds in it, whether reading it succeeds
NoBody == [doc |-> NilNode, article |-> <<>>, readOk |-> FALSE]
Pages ==
    { [doc |-> MkDoc(<<ElementNode("title", <<TextNode(<<"t">>)>>)>>,
                     <<ElementNode("p", <<TextNode(<<"x">>)>>)>>),
       article |-> Rep("a", MinContentLength), readOk |-> TRUE],
      [doc |-> MkDoc(<<>>, <<ElementNode("script", <<TextNode(<<"k">>)>>)>>),
       article |-> Rep("a", 40), readOk |-> TRUE],
      [doc |-> MkDoc(<<>>, <<TextNode(<<"z", " ", " ", "w">>)>>),
       article |-> Rep("a", MinContentLength - 1), readOk |-> TRUE],
      NoBody }

Statuses == {StatusOK, 203, 404}

\* the Timeout of the http.Client the GET goes through, in seconds; 0 is
\* Go's "no timeout" (text.go:14-16; main.go:63 uses http.DefaultClient)
ClientTimeout(i) == IF i = "readability" THEN 10 ELSE 0

NoFetch == [kind |-> "none", timeout |-> 0, err |-> "", status |-> 0, body |-> NoBody]
Pending(i) == [NoFetch EXCEPT !.kind = "pending", !.timeout = ClientTimeout(i)]

\* the errors client.Get can return (text.go:18-21, main.go:63-66):
\* the client parses the URL before anything else; http.Transport serves
\* http and https only; a timeout needs a Timeout
GetErrors(u, f) ==
    IF ~u.wellFormed THEN {"parse error"}
    ELSE IF u.scheme \notin {"http", "https"} THEN {"unsupported protocol scheme"}
    ELSE {"connection refused"}
         \cup (IF f.timeout > 0 THEN {"Client.Timeout exceeded"} ELSE {})

\* url.Parse (text.go:28)
urlParses(u) == u.wellFormed

\* text.go:24, main.go:69
statusRejectedNon2xx(status) == status \notin 200..299
statusRejected(status) == status # StatusOK

\* text.go:22, main.go:67 -- defer resp.Body.Close()
DeferredNone == <<>>
Deferred == <<"close">>

\* readability.FromReader (text.go:33-36)
FromReader(body) ==
    IF body.readOk THEN [TextContent |-> body.article, err |-> ""]
    ELSE [TextContent |-> <<>>, err |-> "read error"]

\* text.go:24-42 -- ExtractTextFromURL after the GET returned a response
readabilityAfterGet(u, f) ==
    IF statusRejected(f.status)
    THEN [content |-> <<>>, err |-> "failed to fetch the page", events |-> <<>>]
    ELSE IF ~urlParses(u)
    THEN [content |-> <<>>, err |-> "failed to parse URL", events |-> <<>>]
    ELSE LET article == FromReader(f.body)
         IN  IF article.err # ""
             THEN [content |-> <<>>, err |-> article.err, events |-> <<"parse">>]
             ELSE IF Len(article.TextContent) < MinContentLength
             THEN [content |-> <<>>, err |-> "extract failed: content too short",
                   events |-> <<"parse">>]
             ELSE [content |-> article.TextContent, err |-> "", events |-> <<"parse">>]

\* main.go:69-74 -- ExtractTextFromURL after the GET returned a response
domAfterGet(u, f) ==
    IF statusRejected(f.status)
    THEN [content |-> <<>>, err |-> "failed to fetch page", events |-> <<>>]
    ELSE LET t == extractTextFromHTML(f.body)
         IN  [content |-> t.content, err |-> t.err, events |-> <<"parse">>]

afterGet(i, u, f) ==
    IF i = "readability" THEN readabilityAfterGet(u, f) ELSE domAfterGet(u, f)

Count(ev, s) == Cardinality({k \in DOMAIN s : s[k] = ev})

\* http.Error (main.go:23, 30, 36)
httpError(msg, code) ==
    [kind |-> "written", status |-> code,
     contentType |-> "text/plain; charset=utf-8", body |-> [text |-> msg]]

\* main.go:40-41
jsonContent(content) ==
    [kind |-> "written", status |-> StatusOK,
     contentType |-> "application/json", body |-> [content |-> content]]

NoResult == [kind |-> "none", content |-> <<>>, err |-> ""]
NoResponse == [kind |-> "none", status |-> 0, contentType |-> "", body |-> [text |-> <<>>]]

\* main.go:35-41 -- what the handler writes for the result of the scrape
handlerResponse(res) ==
    IF res.err # ""
    THEN httpError(<<"Scraping failed: ", res.err>>, StatusInternalServerError)
    ELSE jsonContent(res.content)

Init ==
    /\ impl \in {"dom", "readability"}
    /\ pc = [r \in Reqs |-> "idle"]
    /\ req = [r \in Reqs |-> NoRequest]
    /\ fetch = [r \in Reqs |-> NoFetch]
    /\ result = [r \in Reqs |-> NoResult]
    /\ resp = [r \in Reqs |-> NoResponse]
    /\ log = [r \in Reqs |-> <<>>]
    /\ openBodies = 0
    /\ alive = TRUE
    /\ doc = NilNode
    /\ text = NoText

\* main.go:20-34 and the GET of ExtractTextFromURL (text.go:14-18,
\* main.go:63): a request arrives; the handler rejects it or issues the GET
Handle(r) ==
    /\ alive
    /\ pc[r] = "idle"
    /\ \E q \in Requests :
        /\ req' = [req EXCEPT ![r] = q]
        /\ IF q.method # "POST"
           THEN /\ resp' = [resp EXCEPT ![r] =
                        httpError(<<"Method not allowed">>, StatusMethodNotAllowed)]
                /\ pc' = [pc EXCEPT ![r] = "done"]
                /\ log' = [log EXCEPT ![r] = @ \o <<"write">>]
                /\ fetch' = fetch
           ELSE IF ~q.bodyOk
           THEN /\ resp' = [resp EXCEPT ![r] =
                        httpError(<<"Invalid JSON">>, StatusBadRequest)]
                /\ pc' = [pc EXCEPT ![r] = "done"]
                /\ log' = [log EXCEPT ![r] = @ \o <<"write">>]
                /\ fetch' = fetch
           ELSE /\ fetch' = [fetch EXCEPT ![r] = Pending(impl)]
                /\ pc' = [pc EXCEPT ![r] = "get"]
                /\ log' = [log EXCEPT ![r] = @ \o <<"get">>]
                /\ resp' = resp
    /\ UNCHANGED <<impl, result, openBodies, alive, doc, text>>

\* text.go:18-21, main.go:63-66 -- the GET fails; ExtractTextFromURL
\* returns the error
GetFails(r) ==
    /\ alive
    /\ pc[r] = "get"
    /\ \E e \in GetErrors(req[r].url, fetch[r]) :
        /\ fetch' = [fetch EXCEPT ![r] = [@ EXCEPT !.kind = "error", !.err = e]]
        /\ result' = [result EXCEPT ![r] = [kind |-> "returned", content |-> <<>>, err |-> e]]
    /\ pc' = [pc EXCEPT ![r] = "ret"]
    /\ log' = [log EXCEPT ![r] = @ \o <<"return">>]
    /\ UNCHANGED <<impl, req, resp, openBodies, alive, doc, text>>

\* text.go:18-22, main.go:63-67 -- the GET returns a response
GetResponds(r) ==
    /\ alive
    /\ pc[r] = "get"
    /\ req[r].url.wellFormed
    /\ req[r].url.scheme \in {"http", "https"}
    /\ \E s \in Statuses, b \in Pages :
        fetch' = [fetch EXCEPT ![r] =
                    [@ EXCEPT !.kind = "response", !.status = s, !.body = b]]
    /\ openBodies' = openBodies + 1
    /\ pc' = [pc EXCEPT ![r] = "resp"]
    /\ log' = [log EXCEPT ![r] = @ \o <<"open">>]
    /\ UNCHANGED <<impl, req, result, resp, alive, doc, text>>

\* text.go:24-42, main.go:69-74 -- the rest of ExtractTextFromURL, the
\* deferred call included
Return(r) ==
    /\ alive
    /\ pc[r] = "resp"
    /\ LET o == afterGet(impl, req[r].url, fetch[r])
           ev == o.events \o Deferred
       IN  /\ result' = [result EXCEPT ![r] =
                            [kind |-> "returned", content |-> o.content, err |-> o.err]]
           /\ log' = [log EXCEPT ![r] = @ \o ev \o <<"return">>]
           /\ openBodies' = openBodies - Count("close", ev)
    /\ pc' = [pc EXCEPT ![r] = "ret"]
    /\ UNCHANGED <<impl, req, fetch, resp, alive, doc, text>>

\* the handler ending the process on a failed scrape (log.Fatal)
RespondFatal(r) ==
    /\ alive
    /\ pc[r] = "ret"
    /\ resp' = [resp EXCEPT ![r] = handlerResponse(result[r])]
    /\ log' = [log EXCEPT ![r] = @ \o <<"write">>]
    /\ pc' = [pc EXCEPT ![r] = "done"]
    /\ alive' = (result[r].err = "")
    /\ UNCHANGED <<impl, req, fetch, result, openBodies, doc, text>>

\* main.go:34-42 -- the handler answers with the result of the scrape
Respond(r) ==
    /\ alive
    /\ pc[r] = "ret"
    /\ resp' = [resp EXCEPT ![r] = handlerResponse(result[r])]
    /\ log' = [log EXCEPT ![r] = @ \o <<"write">>]
    /\ pc' = [pc EXCEPT ![r] = "done"]
    /\ UNCHANGED <<impl, req, fetch, result, openBodies, alive, doc, text>>

\* main.go:45-47 -- the goroutine http.ListenAndServe started for the
\* request ends; a later request takes its place
Finish(r) ==
    /\ alive
    /\ pc[r] = "done"
    /\ pc' = [pc EXCEPT ![r] = "idle"]
    /\ req' = [req EXCEPT ![r] = NoRequest]
    /\ fetch' = [fetch EXCEPT ![r] = NoFetch]
    /\ result' = [result EXCEPT ![r] = NoResult]
    /\ resp' = [resp EXCEPT ![r] = NoResponse]
    /\ log' = [log EXCEPT ![r] = <<>>]
    /\ UNCHANGED <<impl, openBodies, alive, doc, text>>

Next ==
    \E r \in Reqs :
        \/ Handle(r)
        \/ GetFails(r)
        \/ GetResponds(r)
        \/ Return(r)
        \/ Respond(r)
        \/ Finish(r)

Spec == Init /\ [][Next]_vars

\* --------------------------------------- text extraction on its own
InitText ==
    /\ impl = "dom"
    /\ pc = [r \in Reqs |-> "idle"]
    /\ req = [r \in Reqs |-> NoRequest]
    /\ fetch = [r \in Reqs |-> NoFetch]
    /\ result = [r \in Reqs |-> NoResult]
    /\ resp = [r \in Reqs |-> NoResponse]
    /\ log = [r \in Reqs |-> <<>>]
    /\ openBodies = 0
    /\ alive = TRUE
    /\ doc \in Docs
    /\ text = NoText

\* main.go:77-101 applied to the document
Extract ==
    /\ text.kind = "none"
    /\ text' = [kind |-> "text"] @@
               extractTextFromHTML([doc |-> doc, article |-> <<>>, readOk |-> TRUE])
    /\ UNCHANGED <<impl, pc, req, fetch, result, resp, log, openBodies, alive, doc>>

NextText == Extract

SpecText == InitText /\ [][NextText]_vars

\* ------------------------------------------------- vocabulary of the claims
Precedes(a, b, s) == \E i, j \in DOMAIN s : i < j /\ s[i] = a /\ s[j] = b

Contains(s, sub) ==
    \E i \in 0..(Len(s) - Len(sub)) : SubSeq(s, i + 1, i + Len(sub)) = sub

NoEdgeSpace(s) == s = <<>> \/ (~IsSpace(s[1]) /\ ~IsSpace(s[Len(s)]))

HasSpaceRun(s) == \E i \in 1..(Len(s) - 1) : IsSpace(s[i]) /\ IsSpace(s[i + 1])

\* the text nodes of a tree, each with its ancestors, root first
RECURSIVE TextNodesOf(_, _)
TextNodesOf(n, anc) ==
    (IF n.type = "Text" THEN {[data |-> n.data, anc |-> anc]} ELSE {})
    \cup UNION { TextNodesOf(n.kids[i], Append(anc, [type |-> n.type, tag |-> n.tag]))
                 : i \in DOMAIN n.kids }

UnderNonContent(t) == \E i \in DOMAIN t.anc : isIgnorable(t.anc[i])
ParentIgnorable(t) == t.anc # <<>> /\ isIgnorable(t.anc[Len(t.anc)])

Extracted == text.kind = "text" /\ text.err = ""

Returned(r) == pc[r] \in {"ret", "done"}
Submitted(r) == req[r].method = "POST" /\ req[r].bodyOk
WellFormed(r) == req[r].url.wellFormed
SupportedScheme(r) == req[r].url.scheme \in {"http", "https"}

\* the text the primary path extracted from the body it parsed
PrimaryText(r) ==
    IF impl = "readability" THEN FromReader(fetch[r].body).TextContent
    ELSE extractTextFromHTML(fetch[r].body).content

ExtractedShort(r) ==
    /\ Returned(r)
    /\ fetch[r].kind = "response"
    /\ Count("parse", log[r]) > 0
    /\ fetch[r].body.readOk
    /\ Len(PrimaryText(r)) < MinContentLength

IsStructuredError(w) ==
    /\ w.contentType = "application/json"
    /\ DOMAIN w.body = {"success", "error"}
    /\ w.body.success = FALSE
    /\ DOMAIN w.body.error = {"code", "message", "details"}

IsInvalidInput(w) == IsStructuredError(w) /\ w.body.error.code = "INVALID_INPUT"

\* ------------------------------------------------------------------ C1
\* C1: when the text the primary path extracted is shorter than the minimum
\* content length, no failure is returned for the request unless a headless
\* rendering attempt was made first.
C1_HeadlessBeforeFailure ==
    \A r \in Reqs :
        (ExtractedShort(r) /\ result[r].err # "") => Count("headless", log[r]) > 0

\* ------------------------------------------------------------------ C2
\* C2: the text extractTextFromHTML produces contains the data of a text
\* node if and only if no ancestor of the node, at any depth, is a
\* non-content element (script, style, head, noscript).
C2_SubtreeExcluded ==
    Extracted =>
        \A t \in TextNodesOf(doc, <<>>) :
            TrimSpace(t.data) # <<>> =>
                (Contains(text.content, TrimSpace(t.data)) <=> ~UnderNonContent(t))

\* ------------------------------------------------------------------ C3
\* C3: the response to a valid submission is written before the fetch and
\* the extraction for that request complete.
C3_RespondsBeforeExtraction ==
    \A r \in Reqs :
        (pc[r] = "done" /\ Submitted(r) /\ WellFormed(r) /\ SupportedScheme(r))
            => ~Precedes("return", "write", log[r])

\* ------------------------------------------------------------------ C4
\* C4: a submission whose url has a scheme other than http or https is
\* answered with an InvalidInput error, and no GET is issued for it.
C4_SchemeRejected ==
    \A r \in Reqs :
        (pc[r] = "done" /\ Submitted(r) /\ WellFormed(r) /\ ~SupportedScheme(r))
            => (IsInvalidInput(resp[r]) /\ Count("get", log[r]) = 0)

\* ------------------------------------------------------------------ C5
\* C5: every GET of ExtractTextFromURL is issued through a client with a
\* bounded timeout, in every implementation of it.
C5_EveryGetHasTimeout ==
    \A r \in Reqs : pc[r] = "get" => fetch[r].timeout > 0

\* ------------------------------------------------------------------ C6
\* C6: every failure response has the structured shape: success=false and
\* an error object with code, message and details.
C6_StructuredErrors ==
    \A r \in Reqs :
        (resp[r].kind = "written" /\ resp[r].status >= 400)
            => IsStructuredError(resp[r])

\* ------------------------------------------------------------------ C7
\* what a request's own input and its own fetch determine
ExpectedResult(r) ==
    IF fetch[r].kind = "error"
    THEN [kind |-> "returned", content |-> <<>>, err |-> fetch[r].err]
    ELSE LET o == afterGet(impl, req[r].url, fetch[r])
         IN  [kind |-> "returned", content |-> o.content, err |-> o.err]

ExpectedResponse(r) ==
    IF req[r].method # "POST"
    THEN httpError(<<"Method not allowed">>, StatusMethodNotAllowed)
    ELSE IF ~req[r].bodyOk THEN httpError(<<"Invalid JSON">>, StatusBadRequest)
    ELSE handlerResponse(ExpectedResult(r))

\* C7: under every interleaving the server process keeps running, and the
\* outcome of each request is the one its own input and its own fetch
\* determine, whatever happened to the other requests.
C7_FailuresIsolated ==
    /\ alive
    /\ \A r \in Reqs :
        /\ (Returned(r) /\ Submitted(r)) => result[r] = ExpectedResult(r)
        /\ pc[r] = "done" => resp[r] = ExpectedResponse(r)

\* one request failed, another succeeded, the process runs
C7_Witness ==
    /\ alive
    /\ \E r1, r2 \in Reqs :
        /\ r1 # r2
        /\ pc[r1] = "done" /\ resp[r1].status = StatusInternalServerError
        /\ pc[r2] = "done" /\ resp[r2].status = StatusOK

\* ------------------------------------------------------------------ C8
\* C8 as stated: the text extractTextFromHTML returns has no leading or
\* trailing whitespace and no run of two or more whitespace characters.
C8_NoWhitespaceRun ==
    Extracted => (NoEdgeSpace(text.content) /\ ~HasSpaceRun(text.content))

\* C8 amended: the text has no leading or trailing whitespace, and a run of
\* two or more whitespace characters occurs in it only where the data of a
\* single extracted text node has that run inside it.
C8_WhitespaceBetweenNodes ==
    Extracted =>
        /\ NoEdgeSpace(text.content)
        /\ HasSpaceRun(text.content) =>
                \E t \in TextNodesOf(doc, <<>>) :
                    ~ParentIgnorable(t) /\ HasSpaceRun(TrimSpace(t.data))

\* a text node with whitespace at its edges was joined to another node's text
C8_Witness ==
    /\ Extracted
    /\ ~HasSpaceRun(text.content)
    /\ \E t \in TextNodesOf(doc, <<>>) :
        /\ ~ParentIgnorable(t)
        /\ TrimSpace(t.data) # <<>>
        /\ TrimSpace(t.data) # t.data
        /\ Len(text.content) > Len(TrimSpace(t.data))

\* ------------------------------------------------------------------ C9
\* C9 as stated: the fetch counts as failed (error, empty content, body
\* never parsed) exactly when the GET returned a transport error or a
\* non-success status; for every success status (2xx) the body is parsed.
C9_FailsExactlyOnNonSuccess ==
    \A r \in Reqs :
        (Returned(r) /\ Submitted(r)) =>
            LET failed == fetch[r].kind = "error" \/ fetch[r].status \notin 200..299
            IN  /\ failed <=> Count("parse", log[r]) = 0
                /\ failed => (result[r].content = <<>> /\ result[r].err # "")

\* C9 amended: the fetch counts as failed exactly when the GET returned a
\* transport error or a status other than 200; then an error and empty
\* content are returned and the body is never parsed, and for status 200
\* the body is parsed.
C9_FailsExactlyOnNon200 ==
    \A r \in Reqs :
        (Returned(r) /\ Submitted(r)) =>
            LET failed == fetch[r].kind = "error" \/ fetch[r].status # StatusOK
            IN  /\ failed <=> Count("parse", log[r]) = 0
                /\ failed => (result[r].content = <<>> /\ result[r].err # "")

\* a 2xx status other than 200 was rejected without parsing
C9_Witness ==
    \E r \in Reqs :
        /\ Returned(r)
        /\ fetch[r].kind = "response"
        /\ fetch[r].status \in 201..299
        /\ Count("parse", log[r]) = 0
        /\ result[r].err # ""

\* ----------------------------------------------------------------- C10
\* C10: once ExtractTextFromURL has returned, the response body was closed
\* exactly once if the GET returned a response and never if the GET failed;
\* the bodies still open are those of the calls between the GET and the
\* return, so none stays open once the requests are over.
C10_BodyClosedOnce ==
    /\ \A r \in Reqs :
        /\ Returned(r) =>
            Count("close", log[r]) = IF fetch[r].kind = "response" THEN 1 ELSE 0
        /\ ~Returned(r) => Count("close", log[r]) = 0
    /\ openBodies = Cardinality({r \in Reqs : pc[r] = "resp"})

\* a call that failed after the GET returned a response, its body closed
C10_Witness ==
    /\ openBodies = 0
    /\ \E r \in Reqs :
        /\ pc[r] = "done"
        /\ fetch[r].kind = "response"
        /\ result[r].err # ""
        /\ Count("close", log[r]) = 1
    /\ \E r \in Reqs :
        /\ pc[r] = "done"
        /\ fetch[r].kind = "error"
        /\ Count("close", log[r]) = 0

====
